---- MODULE Spec2Model ----
(***************************************************************************)
(* A model of the ghciwatch session supervisor (src/src/ghci/mod.rs): the  *)
(* reload-decision engine (Ghci::get_reload_actions, ReloadActions::kind), *)
(* the Reload / Restart / Initialize state machine with its suspension     *)
(* points, and Interrupt (Ghci::send_sigint).                              *)
(*                                                                         *)
(* The supervisor is an async function: it can only be suspended (and its  *)
(* future dropped) at an `.await`.  Each action of the model therefore     *)
(* resumes the supervisor from one await and runs the synchronous code up  *)
(* to the next await.                                                      *)
(***************************************************************************)
EXTENDS Integers, Sequences, FiniteSets, TLC

(***************************************************************************)
(* Bounds of the model.                                                    *)
(***************************************************************************)
\* Largest number of file events handed to one Reload call.
MaxEvents == 2
\* Largest number of glob patterns configured (restart globs plus reload
\* globs) in the session specification.
MaxGlobs == 1
\* Largest number of glob patterns configured in the specification of the
\* reload-decision engine alone.
MaxGlobsClassify == 2
\* Largest number of Reload calls the manager makes for new events in one run.
MaxReloads == 1
\* Largest number of Reload calls the manager interrupts in one run.
MaxInterrupts == 1
\* Largest number of faults (a crash of the REPL, a hook that fails) in one run.
MaxFaults == 1

(***************************************************************************)
(* Paths.  A file event carries a raw path; the session normalizes it to   *)
(* its working directory.  "./B.hs" is a second spelling of "B.hs".        *)
(***************************************************************************)
NormalPaths == {"A.hs", "B.hs", "p.cabal", ".ghci", "x.txt"}

\* The raw paths in the order of Utf8PathBuf (byte-wise).
RawPathSeq == <<"./B.hs", ".ghci", "A.hs", "B.hs", "p.cabal", "x.txt">>

RawPaths == {RawPathSeq[i] : i \in 1..Len(RawPathSeq)}

\* Ghci::relative_path: the raw path made relative to the session's cwd.
relative_path(raw) == IF raw = "./B.hs" THEN "B.hs" ELSE raw

\* A raw path that cannot be made relative to the session's cwd.
BadPath == "?/C.hs"

\* ShowPaths::make_relative returns an error.
make_relative_fails(raw) == raw = BadPath

\* Utf8Path::extension.
extension(path) ==
    CASE path \in {"A.hs", "B.hs"} -> "hs"
      [] path = "p.cabal" -> "cabal"
      [] path = "x.txt" -> "txt"
      [] OTHER -> "none"

\* Utf8Path::file_name.
file_name(path) == path

is_haskell_source_file(path) == extension(path) = "hs"

SourcePaths == {p \in NormalPaths : is_haskell_source_file(p)}

(***************************************************************************)
(* File events.                                                            *)
(***************************************************************************)
EventKinds == {"Modify", "Remove"}

FileEvent == [kind : EventKinds, path : RawPaths]

PathRank(raw) == CHOOSE i \in 1..Len(RawPathSeq) : RawPathSeq[i] = raw

\* derive(Ord) on FileEvent: the variant first, then the path.
EventRank(e) ==
    (IF e.kind = "Modify" THEN 0 ELSE Len(RawPathSeq)) + PathRank(e.path)

\* The iteration order of a BTreeSet<FileEvent>.
RECURSIVE SortedEvents(_)
SortedEvents(S) ==
    IF S = {} THEN <<>>
    ELSE LET first == CHOOSE e \in S : \A f \in S : EventRank(e) <= EventRank(f)
         IN  <<first>> \o SortedEvents(S \ {first})

EventSets == {S \in SUBSET FileEvent : Cardinality(S) <= MaxEvents}

\* The events of the session specification: those of the source paths.
SessionEventSets ==
    {S \in EventSets : \A e \in S : is_haskell_source_file(relative_path(e.path))}

(***************************************************************************)
(* Glob matchers.  GlobMatcher::matched answers Ignore, Whitelist or None. *)
(* A matcher is built from patterns, each whitelisting or ignoring the     *)
(* paths it matches; the patterns here match by extension or by name.      *)
(***************************************************************************)
Match == {"Ignore", "Whitelist", "None"}

Patterns == {"*.hs", "*.cabal", "*.txt", ".ghci"}

\* The pattern that matches the path.
PatternOf(path) ==
    CASE extension(path) = "hs" -> "*.hs"
      [] extension(path) = "cabal" -> "*.cabal"
      [] extension(path) = "txt" -> "*.txt"
      [] OTHER -> ".ghci"

GlobMatcher == [Patterns -> Match]

is_ignore(m) == m = "Ignore"

is_whitelist(m) == m = "Whitelist"

matched(globs, path) == globs[PatternOf(path)]

\* The number of patterns a matcher is built from.
GlobCount(globs) == Cardinality({p \in Patterns : globs[p] # "None"})

GlobConfigs(n) ==
    {g \in [restart_globs : GlobMatcher, reload_globs : GlobMatcher] :
        GlobCount(g.restart_globs) + GlobCount(g.reload_globs) <= n}

(***************************************************************************)
(* ReloadActions.                                                          *)
(***************************************************************************)
EmptyActions == [needs_restart |-> <<>>, needs_reload |-> <<>>, needs_add |-> <<>>]

needs_add_or_reload(a) == a.needs_add # <<>> \/ a.needs_reload # <<>>

needs_restart(a) == a.needs_restart # <<>>

\* A kind that looks at needs_add and needs_reload first.
kind_reload_first(a) ==
    IF needs_add_or_reload(a) THEN "Reload"
    ELSE IF needs_restart(a) THEN "Restart"
    ELSE "None"

kind(a) ==
    IF needs_restart(a) THEN "Restart"
    ELSE IF needs_add_or_reload(a) THEN "Reload"
    ELSE "None"

\* ModuleSet::contains_source_path.
contains_source_path(tgts, path) == path \in tgts

\* ModuleSet::insert_source_path.
insert_source_path(tgts, path) == tgts \cup {path}

\* A get_reload_actions in which an ignoring restart glob also silences the
\* removal of a target.
RestartCondition_ignore_wins(o, tgts, event, path) ==
    LET restart_match == matched(o.restart_globs, path)
    IN  /\ ~is_ignore(restart_match)
        /\ \/ extension(path) = "cabal"
           \/ file_name(path) = ".ghci"
           \/ is_whitelist(restart_match)
           \/ /\ event.kind = "Remove"
              /\ is_haskell_source_file(path)
              /\ contains_source_path(tgts, path)

\* The condition of the first branch of get_reload_actions.
RestartCondition(o, tgts, event, path) ==
    LET restart_match == matched(o.restart_globs, path)
    IN  \/ /\ ~is_ignore(restart_match)
           /\ \/ extension(path) = "cabal"
              \/ file_name(path) = ".ghci"
              \/ is_whitelist(restart_match)
        \/ /\ event.kind = "Remove"
           /\ is_haskell_source_file(path)
           /\ contains_source_path(tgts, path)

\* A get_reload_actions whose reload branch is an `if` of its own, not an
\* `else if` of the restart branch.
ClassifyEvent_if(o, tgts, a, event) ==
    LET path == relative_path(event.path)
        reload_match == matched(o.reload_globs, path)
        r == IF RestartCondition(o, tgts, event, path)
             THEN [a EXCEPT !.needs_restart = Append(@, path)]
             ELSE a
    IN  IF is_whitelist(reload_match)
        THEN [r EXCEPT !.needs_reload = Append(@, path)]
        ELSE IF /\ ~is_ignore(reload_match)
                /\ event.kind = "Modify"
                /\ is_haskell_source_file(path)
        THEN IF contains_source_path(tgts, path)
             THEN [r EXCEPT !.needs_reload = Append(@, path)]
             ELSE [r EXCEPT !.needs_add = Append(@, path)]
        ELSE r

\* A get_reload_actions that tests the reload globs before the restart
\* condition.
ClassifyEvent_reload_first(o, tgts, a, event) ==
    LET path == relative_path(event.path)
        reload_match == matched(o.reload_globs, path)
    IN  IF is_whitelist(reload_match)
        THEN [a EXCEPT !.needs_reload = Append(@, path)]
        ELSE IF RestartCondition(o, tgts, event, path)
        THEN [a EXCEPT !.needs_restart = Append(@, path)]
        ELSE IF /\ ~is_ignore(reload_match)
                /\ event.kind = "Modify"
                /\ is_haskell_source_file(path)
        THEN IF contains_source_path(tgts, path)
             THEN [a EXCEPT !.needs_reload = Append(@, path)]
             ELSE [a EXCEPT !.needs_add = Append(@, path)]
        ELSE a

\* One iteration of the loop of get_reload_actions: the event's path is
\* pushed to at most one of the three vectors.
ClassifyEvent(o, tgts, a, event) ==
    LET path == relative_path(event.path)
        reload_match == matched(o.reload_globs, path)
    IN  IF RestartCondition(o, tgts, event, path)
        THEN [a EXCEPT !.needs_restart = Append(@, path)]
        ELSE IF is_whitelist(reload_match)
        THEN [a EXCEPT !.needs_reload = Append(@, path)]
        ELSE IF /\ ~is_ignore(reload_match)
                /\ event.kind = "Modify"
                /\ is_haskell_source_file(path)
        THEN IF contains_source_path(tgts, path)
             THEN [a EXCEPT !.needs_reload = Append(@, path)]
             ELSE [a EXCEPT !.needs_add = Append(@, path)]
        ELSE a

RECURSIVE ClassifyAll(_, _, _, _)
ClassifyAll(o, tgts, a, evs) ==
    IF evs = <<>> THEN a
    ELSE ClassifyAll(o, tgts, ClassifyEvent(o, tgts, a, Head(evs)), Tail(evs))

get_reload_actions(o, tgts, evs) ==
    ClassifyAll(o, tgts, EmptyActions, SortedEvents(evs))

\* The events whose path can be normalized.
Normalizable(evs) == {e \in evs : ~make_relative_fails(e.path)}

\* A get_reload_actions that passes over the paths it cannot normalize.
try_relative_path_skip(evs) == "Ok"

\* Ghci::get_reload_actions, the `?` of relative_path: the first path that
\* cannot be normalized ends the loop, and the call, with its error.
try_relative_path(evs) == IF Normalizable(evs) # evs THEN "Err" ELSE "Ok"

(***************************************************************************)
(* The session.                                                            *)
(***************************************************************************)
VARIABLES
    opts,               \* GhciOpts: restart_globs, reload_globs, enable_eval, hooks
    targets,            \* Ghci::targets, the paths of the ModuleSet
    eval_commands,      \* Ghci::eval_commands: path -> number of commands, -1 = no key
    new_eval_commands,  \* the local map refresh_eval_commands builds
    command_handles,    \* Ghci::command_handles: the background shell tasks held
    todo,               \* the supervisor's continuation; its head is the pending await
    status,             \* initializing | idle | reloading | interrupting |
                        \* returned | dead
    result,             \* how the last call ended: none | ok | err | interrupted
    events,             \* the events of the current (or last) Reload call
    actions,            \* the ReloadActions of the current (or last) Reload call
    kindReply,          \* what was sent on kind_sender: unsent | None | Reload | Restart
    log,                \* CompilationLog::result of the current call: none | Ok | Err
    trace,              \* what the current call has done so far, in order
    epoch,              \* the number of REPL processes spawned so far
    replQueue,          \* commands the REPL has been sent and has not finished
    stdoutq,            \* prompts the REPL has written that nobody has read yet
    reloads,            \* the number of Reload calls made for new events so far
    interrupts,         \* the number of Reload calls interrupted so far
    retry,              \* the Reload call that was interrupted last, if any
    procs,              \* the REPL processes spawned so far, each with its watcher
    shutdown,           \* program-wide shutdown has been requested
    faults              \* the number of faults that have happened so far

vars == <<opts, targets, eval_commands, new_eval_commands, command_handles, todo,
          status, result, events, actions, kindReply, log, trace, epoch, replQueue,
          stdoutq, reloads, interrupts, retry, procs, shutdown, faults>>

\* An operation of the supervisor, pending or done.
Op(o, a, b) == [op |-> o, a |-> a, b |-> b]

\* The operations at which the supervisor is suspended.
AwaitOps == {"write", "prompt", "read_file", "read_file_init", "shell",
             "write_error_log", "sigint_prompt", "watch"}

\* GhciStdin: one command is written, then the next prompt is awaited.
Command(c, p) == <<Op("write", c, p), Op("prompt", c, p)>>

\* The NormalPaths in their order (by absolute path).
NormalPathSeq == <<".ghci", "A.hs", "B.hs", "p.cabal", "x.txt">>

RECURSIVE SeqOfSet(_, _)
SeqOfSet(S, i) ==
    IF i > Len(NormalPathSeq) THEN <<>>
    ELSE (IF NormalPathSeq[i] \in S THEN <<NormalPathSeq[i]>> ELSE <<>>)
         \o SeqOfSet(S, i + 1)

RECURSIVE Concat(_)
Concat(ss) == IF ss = <<>> THEN <<>> ELSE Head(ss) \o Concat(Tail(ss))

NoEvalCommands == [p \in NormalPaths |-> -1]

EvalKeys(ec) == {p \in NormalPaths : ec[p] >= 0}

(***************************************************************************)
(* The bodies of the supervisor's functions, as the operations they run.   *)
(***************************************************************************)
\* Ghci::run_hooks: each hook selected for the event, in order.  The hooks
\* of the options are: none; an in-REPL command ("Ghci"); a shell command
\* that is waited for ("Shell") or that runs in the background
\* ("Background"); an in-REPL command and then a shell command ("Both").
run_hooks(o, event) ==
    CASE o.hooks = "Ghci" -> Command("hook", event)
      [] o.hooks \in {"Shell", "Background"} -> <<Op("shell", event, "")>>
      [] o.hooks = "Both" -> Command("hook", event) \o <<Op("shell", event, "")>>
      [] OTHER -> <<>>

\* HookOpts::run_shell_hooks, as Ghci::new calls it.
run_shell_hooks(o, event) ==
    IF o.hooks \in {"Shell", "Background", "Both"}
    THEN <<Op("shell", event, "")>> ELSE <<>>

\* Ghci::refresh_eval_commands_for_paths, for one path.
refresh_eval_commands_for_paths(o, path) ==
    IF ~o.enable_eval THEN <<>> ELSE <<Op("read_file", "", path)>>

\* An add_module that does not look at the targets.
add_module_always(o, tgts, path) ==
    Command(":add", path) \o <<Op("insert", "", path)>>
    \o <<Op("refresh_eval_commands_for_paths", "", path)>>

\* An add_module that does not record the path as a target.
add_module_no_insert(o, tgts, path) ==
    IF contains_source_path(tgts, path)
    THEN <<>>
    ELSE Command(":add", path)
         \o <<Op("refresh_eval_commands_for_paths", "", path)>>

\* Ghci::add_module.
add_module(o, tgts, path) ==
    IF contains_source_path(tgts, path)
    THEN <<>>
    ELSE Command(":add", path) \o <<Op("insert", "", path)>>
         \o <<Op("refresh_eval_commands_for_paths", "", path)>>

\* An interpret_module that does not record the path as a target.
interpret_module_no_insert(o, tgts, path) ==
    Command(":add *", path)
    \o <<Op("refresh_eval_commands_for_paths", "", path)>>

\* Ghci::interpret_module.
interpret_module(o, tgts, path) ==
    Command(":add *", path)
    \o (IF contains_source_path(tgts, path) THEN <<>> ELSE <<Op("insert", "", path)>>)
    \o <<Op("refresh_eval_commands_for_paths", "", path)>>

\* GhciStdin::eval: open the module's scope, send the expression, restore.
stdin_eval(path) ==
    Command(":module + *", path) \o Command("expression", path)
    \o Command(":module -", path)

\* An eval that does not force the module to be interpreted.
eval_no_interpret(o, ec) ==
    IF ~o.enable_eval THEN <<>>
    ELSE LET paths == SeqOfSet({p \in NormalPaths : ec[p] >= 1}, 1)
         IN  [i \in 1..Len(paths) |-> Op("stdin_eval", "", paths[i])]

\* Ghci::eval: over a clone of eval_commands.
eval(o, ec) ==
    IF ~o.enable_eval THEN <<>>
    ELSE LET paths == SeqOfSet({p \in NormalPaths : ec[p] >= 1}, 1)
         IN  Concat([i \in 1..Len(paths) |->
                        <<Op("interpret_module", "", paths[i]),
                          Op("stdin_eval", "", paths[i])>>])

\* Ghci::test.
test(o) == <<Op("run_hooks", "Test", "")>>

\* A finish_compilation that runs eval and test whatever the log says.
finish_eval_test_always(o, lg, ec) == eval(o, ec) \o test(o)

\* Ghci::finish_compilation, after the hooks of the events: eval and test only
\* when the result of the log is not Err.
finish_eval_test(o, lg, ec) ==
    IF lg = "Err" THEN <<>> ELSE eval(o, ec) \o test(o)

\* A finish_compilation that writes the error log after the hooks.
finish_compilation_log_last(evs) ==
    [i \in 1..Len(evs) |-> Op("run_hooks", evs[i], "")]
    \o <<Op("write_error_log", "", "")>>
    \o <<Op("finish_check", evs[Len(evs)], "")>>

\* Ghci::finish_compilation.
finish_compilation(evs) ==
    <<Op("write_error_log", "", "")>>
    \o [i \in 1..Len(evs) |-> Op("run_hooks", evs[i], "")]
    \o <<Op("finish_check", evs[Len(evs)], "")>>

\* Ghci::refresh_eval_commands.
refresh_eval_commands(o, tgts) ==
    IF ~o.enable_eval THEN <<>>
    ELSE LET paths == SeqOfSet(tgts, 1)
         IN  [i \in 1..Len(paths) |-> Op("read_file_init", "", paths[i])]
             \o <<Op("commit_eval_commands", "", "")>>

\* Ghci::refresh_paths.
refresh_paths == Command(":show paths", "")

\* Ghci::refresh_targets: the answer to `:show targets` replaces the targets.
refresh_targets == refresh_paths \o Command(":show targets", "")

\* Ghci::initialize.
initialize(evs) ==
    <<Op("prompt", "startup", "")>>
    \o Command("initialize", "")
    \o refresh_targets
    \o <<Op("refresh_eval_commands", "", "")>>
    \o finish_compilation(evs)

\* Ghci::new.
new(o) ==
    run_shell_hooks(o, "StartupBefore") \o <<Op("spawn", "", ""), Op("watch", "", "")>>

\* A restart that stops the session before it runs the RestartBefore hooks.
restart_stop_first ==
    <<Op("stop", "", ""), Op("run_hooks", "RestartBefore", ""), Op("new", "", ""),
      Op("replace", "", ""), Op("initialize", "restart", "")>>

\* Ghci::restart.
restart ==
    <<Op("run_hooks", "RestartBefore", ""), Op("stop", "", ""), Op("new", "", ""),
      Op("replace", "", ""), Op("initialize", "restart", "")>>

\* Ghci::reload, the branch of a restart.
reload_restart == <<Op("clear", "", ""), Op("restart", "", "")>>

\* A reload that issues one `:reload` for each path of needs_reload.
reload_each_path(a) ==
    (IF needs_add_or_reload(a)
     THEN <<Op("clear", "", ""), Op("run_hooks", "ReloadBefore", "")>>
     ELSE <<>>)
    \o [i \in 1..Len(a.needs_add) |-> Op("add_module", "", a.needs_add[i])]
    \o Concat([i \in 1..Len(a.needs_reload) |->
                Command(":reload", "")
                \o <<Op("refresh_eval_commands_for_paths", "", a.needs_reload[i])>>])
    \o (IF needs_add_or_reload(a)
        THEN finish_compilation(<<"ReloadAfter">>)
        ELSE <<>>)
    \o <<Op("prune_command_handles", "", "")>>

\* Ghci::reload, after the branch of a restart.
reload_add_or_reload(a) ==
    (IF needs_add_or_reload(a)
     THEN <<Op("clear", "", ""), Op("run_hooks", "ReloadBefore", "")>>
     ELSE <<>>)
    \o [i \in 1..Len(a.needs_add) |-> Op("add_module", "", a.needs_add[i])]
    \o (IF a.needs_reload # <<>>
        THEN Command(":reload", "")
             \o [i \in 1..Len(a.needs_reload) |->
                    Op("refresh_eval_commands_for_paths", "", a.needs_reload[i])]
        ELSE <<>>)
    \o (IF needs_add_or_reload(a)
        THEN finish_compilation(<<"ReloadAfter">>)
        ELSE <<>>)
    \o <<Op("prune_command_handles", "", "")>>

\* A reload that does not return after the restart.
reload_no_return(a) ==
    <<Op("kind_send", kind(a), "")>>
    \o (IF needs_restart(a) THEN reload_restart ELSE <<>>)
    \o reload_add_or_reload(a)

\* A reload that first refreshes the targets from the REPL.
reload_refresh_targets(a) ==
    <<Op("kind_send", kind(a), "")>>
    \o (IF needs_restart(a) THEN reload_restart
        ELSE refresh_targets \o reload_add_or_reload(a))

\* A reload that clears the screen before it sends the kind.
reload_clear_first(a) ==
    (IF needs_restart(a) \/ needs_add_or_reload(a) THEN <<Op("clear", "", "")>>
     ELSE <<>>)
    \o <<Op("kind_send", kind(a), "")>>
    \o (IF needs_restart(a) THEN Tail(reload_restart)
        ELSE IF needs_add_or_reload(a) THEN Tail(reload_add_or_reload(a))
        ELSE reload_add_or_reload(a))

\* Ghci::reload, after get_reload_actions.
reload(a) ==
    <<Op("kind_send", kind(a), "")>>
    \o (IF needs_restart(a) THEN reload_restart ELSE reload_add_or_reload(a))

(***************************************************************************)
(* A REPL process as the session holds it: the child, the stdin of the     *)
(* child, the restart channel (capacity 1) and the process watcher.        *)
(***************************************************************************)
GhciProcess ==
    [child |-> "running", stdin |-> "open", restart |-> 0, watcher |-> "none"]

\* A stop that sends nothing on the restart channel.
stop_silent(p) == p

\* Ghci::stop: try_send on the restart channel; a full channel is ignored.
stop(p) == [p EXCEPT !.restart = IF @ < 1 THEN @ + 1 ELSE @]

\* Ghci::new: the child is spawned (group_spawn, with kill_on_drop).
spawn(ps) == Append(ps, GhciProcess)

\* A construction that spawns no process watcher.
watch_nothing(p) == p

\* Ghci::new: the process watcher of the child is spawned.
watch(p) == [p EXCEPT !.watcher = "watching"]

\* kill_on_drop: the child is killed when the value that owns it is dropped.
kill_on_drop(p) == [p EXCEPT !.child = IF @ = "running" THEN "killed" ELSE @]

\* The session is dropped (by mem::replace in restart): its stdin is closed.
drop(p) == [p EXCEPT !.stdin = "closed"]

(***************************************************************************)
(* The handles of the shell commands that run in the background.  A handle *)
(* is known by the epoch of the session it was pushed to (the StartupBefore*)
(* hooks of Ghci::new push to the session under construction) and by       *)
(* whether its task has finished.                                          *)
(***************************************************************************)
\* The shell command's run_on, for a command that runs in the background.
run_on(hs, e) == hs \cup {[epoch |-> e, state |-> "running"]}

\* Ghci::prune_command_handles.
prune_command_handles(hs) == {h \in hs : h.state # "finished"}

\* A restart that hands the handles of the old session to the new one.
replace_keep_handles(hs, e) == hs

\* Ghci::restart: self is replaced by the new session, whose handles are
\* those Ghci::new has pushed to its own, empty vector.
replace(hs, e) == {h \in hs : h.epoch = e}

(***************************************************************************)
(* The synchronous code between two awaits.  Advance runs the operations   *)
(* at the head of the continuation until the supervisor is suspended at an *)
(* await or its call returns.  s holds what synchronous code can change.   *)
(***************************************************************************)
Done(s, h) == [s EXCEPT !.todo = Tail(@), !.trace = Append(@, h)]

Expand(s, h, ops) == [s EXCEPT !.todo = ops \o Tail(@), !.trace = Append(@, h)]

Step(o, s) ==
    LET h == Head(s.todo)
    IN  CASE h.op = "kind_send" -> [Done(s, h) EXCEPT !.kindReply = h.a]
          [] h.op = "run_hooks" -> Expand(s, h, run_hooks(o, h.a))
          [] h.op = "add_module" ->
                Expand(s, Op("add_module",
                             IF h.b \in s.targets THEN "target" ELSE "new", h.b),
                       add_module(o, s.targets, h.b))
          [] h.op = "insert" ->
                [Done(s, h) EXCEPT !.targets = insert_source_path(@, h.b)]
          [] h.op = "refresh_eval_commands_for_paths" ->
                Expand(s, h, refresh_eval_commands_for_paths(o, h.b))
          [] h.op = "finish_check" ->
                Expand(s, Op("finish_check", h.a, s.log),
                       finish_eval_test(o, s.log, s.eval_commands))
          [] h.op = "interpret_module" ->
                Expand(s, h, interpret_module(o, s.targets, h.b))
          [] h.op = "stdin_eval" -> Expand(s, h, stdin_eval(h.b))
          [] h.op = "restart" -> Expand(s, h, restart)
          [] h.op = "new" -> Expand(s, h, new(o))
          [] h.op = "stop" -> [Done(s, h) EXCEPT !.procs[s.epoch] = stop(@)]
          [] h.op = "spawn" ->
                \* The fresh session, which replaces self; its REPL is starting up.
                [Done(s, h) EXCEPT !.epoch = @ + 1, !.replQueue = 1, !.stdoutq = 0,
                                   !.targets = {}, !.eval_commands = NoEvalCommands,
                                   !.log = "none", !.procs = spawn(@)]
          [] h.op = "replace" ->
                \* The old session is dropped, and its stdin with it.
                [Done(s, h) EXCEPT !.procs[s.epoch - 1] = drop(@),
                                   !.command_handles = replace(@, s.epoch)]
          [] h.op = "initialize" ->
                Expand(s, h, initialize(<<"StartupAfter", "RestartAfter">>))
          [] h.op = "refresh_eval_commands" ->
                [Expand(s, h, refresh_eval_commands(o, s.targets))
                    EXCEPT !.new_eval_commands = NoEvalCommands]
          [] h.op = "commit_eval_commands" ->
                [Done(s, h) EXCEPT !.eval_commands = s.new_eval_commands,
                                   !.new_eval_commands = NoEvalCommands]
          [] h.op = "prune_command_handles" ->
                [Done(s, h) EXCEPT !.command_handles = prune_command_handles(@)]
          [] OTHER -> Done(s, h)    \* clear

RECURSIVE Advance(_, _)
Advance(o, s) ==
    IF s.todo = <<>> \/ Head(s.todo).op \in AwaitOps THEN s
    ELSE Advance(o, Step(o, s))

\* The part of the state synchronous code can change.
Sync ==
    [todo |-> todo, trace |-> trace, targets |-> targets,
     eval_commands |-> eval_commands, new_eval_commands |-> new_eval_commands,
     command_handles |-> command_handles,
     kindReply |-> kindReply, log |-> log, epoch |-> epoch,
     replQueue |-> replQueue, stdoutq |-> stdoutq, procs |-> procs]

\* The supervisor resumes from state s and runs to its next await; st is the
\* status of the call while it is suspended.
Resume(s, st) ==
    LET n == Advance(opts, s)
    IN  /\ todo' = n.todo
        /\ trace' = n.trace
        /\ targets' = n.targets
        /\ eval_commands' = n.eval_commands
        /\ new_eval_commands' = n.new_eval_commands
        /\ command_handles' = n.command_handles
        /\ kindReply' = n.kindReply
        /\ log' = n.log
        /\ epoch' = n.epoch
        /\ replQueue' = n.replQueue
        /\ stdoutq' = n.stdoutq
        /\ procs' = n.procs
        /\ status' = IF n.todo = <<>> THEN "returned" ELSE st
        /\ result' = IF n.todo = <<>> THEN "ok" ELSE result

\* The await at the head of the continuation completed: h is logged.
Completed(h) == [Sync EXCEPT !.todo = Tail(@), !.trace = Append(@, h)]

\* A call whose every error is fatal.
Fail_fatal(h) ==
    /\ todo' = <<>>
    /\ trace' = Append(trace, Op("error", h.op, h.b))
    /\ status' = "dead"
    /\ result' = "err"
    /\ UNCHANGED <<targets, eval_commands, new_eval_commands, command_handles,
                   kindReply, log, epoch, replQueue, stdoutq, procs>>

\* The call returns an error.  An error of initialize or restart is fatal;
\* an error of a reload ends that reload and leaves the session alive.
Fail(h) ==
    /\ todo' = <<>>
    /\ trace' = Append(trace, Op("error", h.op, h.b))
    /\ status' = IF status = "initializing" \/ kindReply = "Restart"
                 THEN "dead" ELSE "returned"
    /\ result' = "err"
    /\ UNCHANGED <<targets, eval_commands, new_eval_commands, command_handles,
                   kindReply, log, epoch, replQueue, stdoutq, procs>>

Running == status \in {"initializing", "reloading"} /\ todo # <<>>

(***************************************************************************)
(* The interrupted call the manager may issue again (for reload,           *)
(* interrupt, reload): its events, the least and the largest target set an *)
(* uninterrupted reload of those events can end with, and the path of the  *)
(* `:add` it had written and was awaiting the prompt of when its future    *)
(* was dropped ("" when it was suspended elsewhere).                       *)
(***************************************************************************)
SeqRange(q) == {q[i] : i \in 1..Len(q)}

Expectation(evs, a) ==
    LET low == targets \cup SeqRange(a.needs_add)
    IN  [state |-> "none", events |-> evs, adds |-> SeqRange(a.needs_add),
         in_flight |-> "", low |-> low,
         high |-> IF opts.enable_eval
                  THEN low \cup EvalKeys(eval_commands) \cup SeqRange(a.needs_reload)
                  ELSE low]

NoRetry ==
    [state |-> "none", events |-> {}, adds |-> {}, in_flight |-> "", low |-> {},
     high |-> {}]

(***************************************************************************)
(* Actions of the supervisor.                                              *)
(***************************************************************************)
\* Ghci::reload is called with a set of events: new events, or those of the
\* call that was interrupted, with the events that arrived since.
Reload(evs) ==
    /\ status = "idle"
    /\ IF retry.state = "armed"
       THEN retry.events \subseteq evs /\ reloads' = reloads
       ELSE reloads < MaxReloads /\ reloads' = reloads + 1
    /\ events' = evs
    /\ IF try_relative_path(evs) = "Err"
       THEN \* get_reload_actions(events).await? returns the error; kind_sender
            \* is dropped with nothing sent on it.
            /\ actions' = EmptyActions
            /\ retry' = NoRetry
            /\ todo' = <<>>
            /\ trace' = <<Op("error", "relative_path", "")>>
            /\ status' = "returned"
            /\ result' = "err"
            /\ kindReply' = "unsent"
            /\ log' = "none"
            /\ UNCHANGED <<targets, eval_commands, new_eval_commands, command_handles,
                           epoch, replQueue, stdoutq, procs>>
       ELSE LET a == get_reload_actions(opts, targets, Normalizable(evs))
            IN  /\ actions' = a
                /\ retry' = IF retry.state = "armed" /\ retry.events = evs
                            THEN [retry EXCEPT !.state = "resumed"]
                            ELSE Expectation(evs, a)
                /\ Resume([Sync EXCEPT !.todo = reload(a), !.trace = <<>>,
                                       !.kindReply = "unsent", !.log = "none"],
                          "reloading")
    /\ UNCHANGED <<opts, interrupts, shutdown, faults>>

\* GhciStdin writes a command to the REPL.
WriteCommand ==
    /\ Running
    /\ Head(todo).op = "write"
    /\ procs[epoch].child = "running"
    /\ todo' = Tail(todo)
    /\ trace' = Append(trace, Head(todo))
    /\ replQueue' = replQueue + 1
    /\ UNCHANGED <<opts, targets, eval_commands, new_eval_commands, command_handles,
                   status, result, events, actions, kindReply, log, epoch, stdoutq,
                   reloads, interrupts, retry, procs, shutdown, faults>>

CompileCommands == {"startup", ":add", ":reload"}

\* GhciStdout::prompt returns: the command's output up to the prompt is read.
ReadPrompt ==
    /\ Running
    /\ Head(todo).op = "prompt"
    /\ stdoutq > 0
    /\ LET h == Head(todo)
       IN  \E lg \in IF h.a \in CompileCommands THEN {"Ok", "Err"} ELSE {log},
              tgts \in IF h.a = ":show targets" THEN SUBSET SourcePaths ELSE {targets} :
                Resume([Completed(h) EXCEPT !.stdoutq = @ - 1, !.log = lg,
                                            !.targets = tgts],
                       status)
    /\ UNCHANGED <<opts, events, actions, reloads, interrupts, retry, shutdown, faults>>

\* Ghci::parse_eval_commands returns for a path of
\* refresh_eval_commands_for_paths: n commands, or (n = -1) an error.
ReadFile ==
    /\ Running
    /\ Head(todo).op = "read_file"
    /\ LET h == Head(todo)
       IN  \E n \in -1..1 :
                IF n = -1 THEN Fail(h)
                ELSE Resume([Completed(h) EXCEPT !.eval_commands[h.b] = n], status)
    /\ UNCHANGED <<opts, events, actions, reloads, interrupts, retry, shutdown, faults>>

\* Ghci::parse_eval_commands returns for a target of refresh_eval_commands.
ReadFileInit ==
    /\ Running
    /\ Head(todo).op = "read_file_init"
    /\ LET h == Head(todo)
       IN  \E n \in -1..1 :
                IF n = -1 THEN Fail(h)
                ELSE Resume([Completed(h) EXCEPT
                                !.new_eval_commands[h.b] = IF n >= 1 THEN n ELSE @],
                            status)
    /\ UNCHANGED <<opts, events, actions, reloads, interrupts, retry, shutdown, faults>>

\* A shell hook was run.
ShellHook ==
    /\ Running
    /\ Head(todo).op = "shell"
    /\ LET h == Head(todo)
           e == IF h.a = "StartupBefore" THEN epoch + 1 ELSE epoch
       IN  Resume([Completed(h) EXCEPT
                      !.command_handles = IF opts.hooks = "Background"
                                          THEN run_on(@, e) ELSE @],
                  status)
    /\ UNCHANGED <<opts, events, actions, reloads, interrupts, retry, shutdown, faults>>

\* Ghci::write_error_log returns.
WriteErrorLog ==
    /\ Running
    /\ Head(todo).op = "write_error_log"
    /\ Resume(Completed(Head(todo)), status)
    /\ UNCHANGED <<opts, events, actions, reloads, interrupts, retry, shutdown, faults>>

\* The task of a shell command that runs in the background finishes.
CommandFinishes ==
    /\ \E h \in command_handles :
            /\ h.state = "running"
            /\ command_handles' =
                    (command_handles \ {h}) \cup {[h EXCEPT !.state = "finished"]}
    /\ UNCHANGED <<opts, targets, eval_commands, new_eval_commands, todo, status,
                   result, events, actions, kindReply, log, trace, epoch, replQueue,
                   stdoutq, reloads, interrupts, retry, procs, shutdown, faults>>

\* Ghci::new: the tasks of the new child (the stderr reader, the process
\* watcher) are spawned.
SpawnWatcher ==
    /\ Running
    /\ Head(todo).op = "watch"
    /\ Resume([Completed(Head(todo)) EXCEPT !.procs[epoch] = watch(@)], status)
    /\ UNCHANGED <<opts, events, actions, reloads, interrupts, retry, shutdown, faults>>

(***************************************************************************)
(* The REPL.                                                               *)
(***************************************************************************)
\* The REPL finishes the command it runs (or its startup) and prints the
\* prompt.
ReplFinish ==
    /\ status # "dead"
    /\ procs[epoch].child = "running"
    /\ replQueue > 0
    /\ replQueue' = replQueue - 1
    /\ stdoutq' = stdoutq + 1
    /\ UNCHANGED <<opts, targets, eval_commands, new_eval_commands, command_handles,
                   todo, status, result, events, actions, kindReply, log, trace, epoch,
                   reloads, interrupts, retry, procs, shutdown, faults>>

(***************************************************************************)
(* Interrupt.  The manager interrupts a Reload whose kind is Reload when a *)
(* new event arrives: Ghci::send_sigint signals the process group and then *)
(* awaits a prompt; the Reload future is dropped where it was suspended.   *)
(* SIGINT makes the REPL abandon the command it runs, if any, and print    *)
(* the prompt.                                                             *)
(***************************************************************************)
send_sigint ==
    /\ replQueue' = IF replQueue > 0 THEN replQueue - 1 ELSE 0
    /\ stdoutq' = stdoutq + 1
    /\ todo' = <<Op("sigint_prompt", "", "")>>

InterruptReload ==
    /\ status = "reloading"
    /\ kindReply = "Reload"
    /\ interrupts' = interrupts + 1
    /\ send_sigint
    /\ status' = "interrupting"
    /\ retry' = [retry EXCEPT !.state = "armed",
                               !.in_flight = IF Head(todo).op = "prompt"
                                                    /\ Head(todo).a = ":add"
                                             THEN Head(todo).b ELSE ""]
    \* The dropped future takes its ReloadActions and its CompilationLog with
    \* it.  The log of the interrupt tells where the Reload was suspended and
    \* what the REPL was doing.
    /\ trace' = <<Op("send_sigint", Head(todo).op,
                     IF replQueue > 0 THEN "in flight"
                     ELSE IF stdoutq > 0 THEN "prompt unread" ELSE "idle")>>
    /\ actions' = EmptyActions
    /\ log' = "none"
    /\ UNCHANGED <<opts, targets, eval_commands, new_eval_commands, command_handles,
                   result, events, kindReply, epoch, reloads, procs, shutdown, faults>>

Interrupt ==
    /\ interrupts < MaxInterrupts
    /\ InterruptReload

\* The manager interrupts once more: the Reload it issued after an interrupted
\* one is interrupted by the next event.
InterruptAgain ==
    /\ interrupts = MaxInterrupts
    /\ InterruptReload

\* The prompt send_sigint awaits (FindAt::Anywhere) arrives.
InterruptPrompt ==
    /\ status = "interrupting"
    /\ stdoutq > 0
    /\ stdoutq' = stdoutq - 1
    /\ todo' = <<>>
    /\ status' = "returned"
    /\ result' = "interrupted"
    /\ trace' = Append(trace, Head(todo))
    /\ UNCHANGED <<opts, targets, eval_commands, new_eval_commands, command_handles,
                   events, actions, kindReply, log, epoch, replQueue, reloads,
                   interrupts, retry, procs, shutdown, faults>>

\* The manager takes the outcome of the call and waits for the next event.
Return ==
    /\ status = "returned"
    /\ status' = "idle"
    /\ trace' = <<>>
    /\ actions' = EmptyActions
    /\ kindReply' = "unsent"
    /\ log' = "none"
    /\ events' = IF result = "interrupted" THEN events ELSE {}
    /\ retry' = IF result = "interrupted" THEN retry ELSE NoRetry
    /\ UNCHANGED <<opts, targets, eval_commands, new_eval_commands, command_handles,
                   todo, result, epoch, replQueue, stdoutq, reloads, interrupts, procs,
                   shutdown, faults>>

(***************************************************************************)
(* The session specification: the state after Ghci::new, at the first      *)
(* await of initialize.                                                    *)
(***************************************************************************)
HookConfigs == {"none", "Ghci", "Shell"}

\* GhciOpts with at most n glob patterns, each one of the patterns P.
Options(n, P) ==
    {[restart_globs |-> g.restart_globs, reload_globs |-> g.reload_globs,
      enable_eval |-> e, hooks |-> h] :
        g \in {c \in GlobConfigs(n) :
                    \A p \in Patterns \ P :
                        c.restart_globs[p] = "None" /\ c.reload_globs[p] = "None"},
        e \in BOOLEAN, h \in HookConfigs}

Init ==
    /\ opts \in Options(MaxGlobs, {"*.hs"})
    /\ targets = {}
    /\ eval_commands = NoEvalCommands
    /\ new_eval_commands = NoEvalCommands
    /\ command_handles = {}
    /\ todo = initialize(<<"StartupAfter">>)
    /\ status = "initializing"
    /\ result = "none"
    /\ events = {}
    /\ actions = EmptyActions
    /\ kindReply = "unsent"
    /\ log = "none"
    /\ trace = <<>>
    /\ epoch = 1
    /\ replQueue = 1
    /\ stdoutq = 0
    /\ reloads = 0
    /\ interrupts = 0
    /\ retry = NoRetry
    /\ procs = <<watch(GhciProcess)>>
    /\ shutdown = FALSE
    /\ faults = 0

\* The state after Ghci::new for options without globs.
InitInterrupt ==
    /\ opts \in Options(0, {})
    /\ targets = {}
    /\ eval_commands = NoEvalCommands
    /\ new_eval_commands = NoEvalCommands
    /\ command_handles = {}
    /\ todo = initialize(<<"StartupAfter">>)
    /\ status = "initializing"
    /\ result = "none"
    /\ events = {}
    /\ actions = EmptyActions
    /\ kindReply = "unsent"
    /\ log = "none"
    /\ trace = <<>>
    /\ epoch = 1
    /\ replQueue = 1
    /\ stdoutq = 0
    /\ reloads = 0
    /\ interrupts = 0
    /\ retry = NoRetry
    /\ procs = <<watch(GhciProcess)>>
    /\ shutdown = FALSE
    /\ faults = 0

Next ==
    \/ \E evs \in SessionEventSets : Reload(evs)
    \/ WriteCommand
    \/ ReadPrompt
    \/ ReadFile
    \/ ReadFileInit
    \/ ShellHook
    \/ WriteErrorLog
    \/ SpawnWatcher
    \/ ReplFinish
    \/ Interrupt
    \/ InterruptPrompt
    \/ Return

Spec == Init /\ [][Next]_vars

\* The session in which a Reload and the Reload that follows it can both be
\* interrupted, with the prompt that send_sigint awaits read when it has
\* arrived (the task is scheduled), for the options without globs.
NextInterrupt ==
    \/ \E evs \in SessionEventSets : Reload(evs)
    \/ WriteCommand
    \/ ReadPrompt
    \/ ReadFile
    \/ ReadFileInit
    \/ ShellHook
    \/ WriteErrorLog
    \/ SpawnWatcher
    \/ ReplFinish
    \/ Interrupt
    \/ InterruptAgain
    \/ InterruptPrompt
    \/ Return

SpecInterrupt == InitInterrupt /\ [][NextInterrupt]_vars /\ WF_vars(InterruptPrompt)

(***************************************************************************)
(* The session that is also handed events whose path cannot be normalized. *)
(***************************************************************************)
BadEvents == [kind : EventKinds, path : {BadPath}]

PathEventSets ==
    {S \in SUBSET ({e \in FileEvent : is_haskell_source_file(relative_path(e.path))}
                        \cup BadEvents) :
        Cardinality(S) <= MaxEvents}

NextPaths ==
    \/ \E evs \in PathEventSets : Reload(evs)
    \/ WriteCommand
    \/ ReadPrompt
    \/ ReadFile
    \/ ReadFileInit
    \/ ShellHook
    \/ WriteErrorLog
    \/ SpawnWatcher
    \/ ReplFinish
    \/ Interrupt
    \/ InterruptPrompt
    \/ Return

SpecPaths == InitInterrupt /\ [][NextPaths]_vars

(***************************************************************************)
(* The session whose hooks are shell commands that run in the background:  *)
(* the state after Ghci::new, which has run the StartupBefore hook.        *)
(***************************************************************************)
HandleOptions ==
    {[o EXCEPT !.hooks = "Background"] :
        o \in {c \in Options(MaxGlobs, {"*.hs"}) :
                    /\ GlobCount(c.restart_globs) = 0
                    /\ c.reload_globs["*.hs"] # "Whitelist"}}

InitHandles ==
    /\ opts \in HandleOptions
    /\ targets = {}
    /\ eval_commands = NoEvalCommands
    /\ new_eval_commands = NoEvalCommands
    /\ command_handles = run_on({}, 1)
    /\ todo = initialize(<<"StartupAfter">>)
    /\ status = "initializing"
    /\ result = "none"
    /\ events = {}
    /\ actions = EmptyActions
    /\ kindReply = "unsent"
    /\ log = "none"
    /\ trace = <<>>
    /\ epoch = 1
    /\ replQueue = 1
    /\ stdoutq = 0
    /\ reloads = 0
    /\ interrupts = 0
    /\ retry = NoRetry
    /\ procs = <<watch(GhciProcess)>>
    /\ shutdown = FALSE
    /\ faults = 0

\* The events of this specification: those of the source paths, and none.
NextHandles ==
    \/ \E evs \in SessionEventSets : Reload(evs)
    \/ WriteCommand
    \/ ReadPrompt
    \/ ReadFile
    \/ ReadFileInit
    \/ ShellHook
    \/ WriteErrorLog
    \/ SpawnWatcher
    \/ CommandFinishes
    \/ ReplFinish
    \/ Interrupt
    \/ InterruptPrompt
    \/ Return

SpecHandles == InitHandles /\ [][NextHandles]_vars

(***************************************************************************)
(* Faults, and the process watchers.  The watcher of a process             *)
(* (GhciProcess::run) selects among the exit of the child, the restart     *)
(* channel and the shutdown token; when several are ready the select takes *)
(* any of them.                                                            *)
(***************************************************************************)
session == <<opts, targets, eval_commands, new_eval_commands, command_handles, todo,
             status, result, events, actions, kindReply, log, trace, epoch, replQueue,
             stdoutq, reloads, interrupts, retry>>

\* The branches of the select that are ready for the process p.
select(p, sd) ==
    (IF p.child # "running" THEN {"exited"} ELSE {})
    \cup (IF p.restart > 0 THEN {"restart"} ELSE {})
    \cup (IF sd THEN {"shutdown"} ELSE {})

\* SIGTERM (then SIGKILL) to the process group.
terminate(p) == [p EXCEPT !.child = IF @ = "running" THEN "killed" ELSE @]

\* The child has exited: the watcher asks for the shutdown of the program.
WatcherExited(e) ==
    /\ procs[e].watcher = "watching"
    /\ "exited" \in select(procs[e], shutdown)
    /\ procs' = [procs EXCEPT ![e].watcher = "reported"]
    /\ shutdown' = TRUE
    /\ UNCHANGED <<session, faults>>

\* The restart channel holds a unit: the watcher terminates the process
\* group and returns.
WatcherRestart(e) ==
    /\ procs[e].watcher = "watching"
    /\ "restart" \in select(procs[e], shutdown)
    /\ procs' = [procs EXCEPT ![e] = [terminate(@) EXCEPT !.restart = 0,
                                                         !.watcher = "quiet"]]
    /\ UNCHANGED <<session, shutdown, faults>>

\* Shutdown was requested: the watcher terminates the process group.
WatcherShutdown(e) ==
    /\ procs[e].watcher = "watching"
    /\ "shutdown" \in select(procs[e], shutdown)
    /\ procs' = [procs EXCEPT ![e] = [terminate(@) EXCEPT !.watcher = "stopped"]]
    /\ UNCHANGED <<session, shutdown, faults>>

\* The REPL of the session dies on its own, while its session has not been
\* stopped.
ChildCrashes ==
    /\ faults < MaxFaults
    /\ procs[epoch].child = "running"
    /\ procs[epoch].restart = 0
    /\ procs' = [procs EXCEPT ![epoch].child = "crashed"]
    /\ faults' = faults + 1
    /\ UNCHANGED <<session, shutdown>>

\* A REPL whose stdin was closed reads the end of its input and exits.
ChildEof(e) ==
    /\ procs[e].stdin = "closed"
    /\ procs[e].child = "running"
    /\ procs' = [procs EXCEPT ![e].child = "exited"]
    /\ UNCHANGED <<session, shutdown, faults>>

\* A Reload call that a fault has ended is not counted by MaxReloads: the
\* manager can make the next one.
Refund == IF status = "reloading" THEN reloads - 1 ELSE reloads

\* A write to a REPL that has exited fails.
WriteError ==
    /\ Running
    /\ Head(todo).op = "write"
    /\ procs[epoch].child # "running"
    /\ Fail(Head(todo))
    /\ reloads' = Refund
    /\ UNCHANGED <<opts, events, actions, interrupts, retry, shutdown, faults>>

\* GhciStdout::prompt reads the end of the output of a REPL that has exited.
PromptError ==
    /\ Running
    /\ Head(todo).op = "prompt"
    /\ procs[epoch].child # "running"
    /\ stdoutq = 0
    /\ Fail(Head(todo))
    /\ reloads' = Refund
    /\ UNCHANGED <<opts, events, actions, interrupts, retry, shutdown, faults>>

\* A shell hook that did not succeed.
ShellStatus == {"failed", "cannot execute"}

\* A shell command that reports every status but success as an error.
before_startup_shell_strict(st) == IF st = "success" THEN "Ok" ELSE "Err"

\* Ghci::before_startup_shell: the command that cannot be executed is an
\* error; the command that exits without success is logged.
before_startup_shell(st) == IF st = "cannot execute" THEN "Err" ELSE "Ok"

\* A shell hook does not succeed.
ShellHookFails ==
    /\ faults < MaxFaults
    /\ Running
    /\ Head(todo).op = "shell"
    /\ faults' = faults + 1
    /\ \E st \in ShellStatus :
            IF before_startup_shell(st) = "Ok"
            THEN /\ Resume(Completed(Op("shell", Head(todo).a, st)), status)
                 /\ reloads' = reloads
            ELSE /\ Fail(Op("shell", Head(todo).a, st))
                 /\ reloads' = Refund
    /\ UNCHANGED <<opts, events, actions, interrupts, retry, shutdown>>

\* The command of an in-REPL hook fails: the REPL prints the error, and then
\* the prompt.
GhciHookFails ==
    /\ faults < MaxFaults
    /\ Running
    /\ Head(todo).op = "prompt" /\ Head(todo).a = "hook"
    /\ stdoutq > 0
    /\ faults' = faults + 1
    /\ Resume([Completed(Op("hook failed", "hook", Head(todo).b))
                  EXCEPT !.stdoutq = @ - 1], status)
    /\ UNCHANGED <<opts, events, actions, reloads, interrupts, retry, shutdown>>

\* Ghci::new returns an error after it has spawned the child and before it
\* has handed it to a process watcher: the child is dropped.
ConstructionFails ==
    /\ faults < MaxFaults
    /\ Running
    /\ Head(todo).op = "watch"
    /\ faults' = faults + 1
    /\ todo' = <<>>
    /\ trace' = Append(trace, Op("error", "new", ""))
    /\ status' = "dead"
    /\ result' = "err"
    /\ procs' = [procs EXCEPT ![epoch] = kill_on_drop(@)]
    /\ reloads' = Refund
    /\ UNCHANGED <<opts, targets, eval_commands, new_eval_commands, command_handles,
                   kindReply, log, epoch, replQueue, stdoutq, events, actions,
                   interrupts, retry, shutdown>>

\* Shutdown is requested while Ghci::new holds a child it has not handed to
\* a process watcher: the manager drops the call, and the child with it.
ShutdownDrops ==
    /\ shutdown
    /\ procs[epoch].watcher = "none"
    /\ procs[epoch].child = "running"
    /\ procs' = [procs EXCEPT ![epoch] = kill_on_drop(@)]
    /\ UNCHANGED <<session, shutdown, faults>>

\* The manager: the error of initialize or of restart ends the program.
FatalShutdown ==
    /\ status = "dead"
    /\ ~shutdown
    /\ shutdown' = TRUE
    /\ UNCHANGED <<session, procs, faults>>

\* The options without globs: with eval commands, or with two hooks for each
\* event, an in-REPL command and then a shell command.
FaultOptions ==
    {[restart_globs |-> [p \in Patterns |-> "None"],
      reload_globs |-> [p \in Patterns |-> "None"],
      enable_eval |-> e, hooks |-> IF e THEN "none" ELSE "Both"] : e \in BOOLEAN}

InitFaults ==
    /\ opts \in FaultOptions
    /\ targets = {}
    /\ eval_commands = NoEvalCommands
    /\ new_eval_commands = NoEvalCommands
    /\ command_handles = {}
    /\ todo = initialize(<<"StartupAfter">>)
    /\ status = "initializing"
    /\ result = "none"
    /\ events = {}
    /\ actions = EmptyActions
    /\ kindReply = "unsent"
    /\ log = "none"
    /\ trace = <<>>
    /\ epoch = 1
    /\ replQueue = 1
    /\ stdoutq = 0
    /\ reloads = 0
    /\ interrupts = 0
    /\ retry = NoRetry
    /\ procs = <<watch(GhciProcess)>>
    /\ shutdown = FALSE
    /\ faults = 0

\* The event sets of one event.
FaultEventSets == {evs \in SessionEventSets : Cardinality(evs) = 1}

\* The supervisor and the REPL run until shutdown is requested.
NextFaults ==
    \/ ~shutdown /\ \E evs \in FaultEventSets : Reload(evs)
    \/ ~shutdown /\ WriteCommand
    \/ ~shutdown /\ ReadPrompt
    \/ ~shutdown /\ ReadFile
    \/ ~shutdown /\ ReadFileInit
    \/ ~shutdown /\ ShellHook
    \/ ~shutdown /\ WriteErrorLog
    \/ ~shutdown /\ SpawnWatcher
    \/ ~shutdown /\ ConstructionFails
    \/ ~shutdown /\ ReplFinish
    \/ ~shutdown /\ Return
    \/ ~shutdown /\ WriteError
    \/ ~shutdown /\ PromptError
    \/ ~shutdown /\ ShellHookFails
    \/ ~shutdown /\ GhciHookFails
    \/ ~shutdown /\ ChildCrashes
    \/ FatalShutdown
    \/ ShutdownDrops
    \/ \E e \in 1..Len(procs) : WatcherExited(e)
    \/ \E e \in 1..Len(procs) : WatcherRestart(e)
    \/ \E e \in 1..Len(procs) : WatcherShutdown(e)
    \/ \E e \in 1..Len(procs) : ChildEof(e)

SpecFaults == InitFaults /\ [][NextFaults]_vars

\* The process watcher of process e, a task of its own: it runs when a branch
\* of its select is ready.
Watcher(e) ==
    /\ e \in 1..Len(procs)
    /\ WatcherExited(e) \/ WatcherRestart(e) \/ WatcherShutdown(e)

\* Largest number of REPL processes in one run.
MaxProcs == MaxReloads + 1

\* The faults, with the tasks of the runtime scheduled: the watchers, the
\* spawning of a watcher, and the manager at a fatal error or at shutdown.
SpecWatched ==
    /\ SpecFaults
    /\ \A e \in 1..MaxProcs : WF_vars(Watcher(e))
    /\ WF_vars(~shutdown /\ SpawnWatcher)
    /\ WF_vars(FatalShutdown)
    /\ WF_vars(ShutdownDrops)

(***************************************************************************)
(* The specification of the reload-decision engine alone: any glob         *)
(* configuration, any target set, and get_reload_actions applied to any    *)
(* set of events.                                                          *)
(***************************************************************************)
InitClassify ==
    /\ opts \in {o \in Options(MaxGlobsClassify, Patterns) :
                    ~o.enable_eval /\ o.hooks = "none"}
    /\ targets \in SUBSET SourcePaths
    /\ eval_commands = NoEvalCommands
    /\ new_eval_commands = NoEvalCommands
    /\ command_handles = {}
    /\ todo = <<>>
    /\ status = "idle"
    /\ result = "none"
    /\ events = {}
    /\ actions = EmptyActions
    /\ kindReply = "unsent"
    /\ log = "none"
    /\ trace = <<>>
    /\ epoch = 1
    /\ replQueue = 0
    /\ stdoutq = 0
    /\ reloads = 0
    /\ interrupts = 0
    /\ retry = NoRetry
    /\ procs = <<watch(GhciProcess)>>
    /\ shutdown = FALSE
    /\ faults = 0

Classify(evs) ==
    /\ kindReply = "unsent"
    /\ events' = evs
    /\ actions' = get_reload_actions(opts, targets, evs)
    /\ kindReply' = kind(actions')
    /\ UNCHANGED <<opts, targets, eval_commands, new_eval_commands, command_handles,
                   todo, status, result, log, trace, epoch, replQueue, stdoutq, reloads,
                   interrupts, retry, procs, shutdown, faults>>

NextClassify == \E evs \in EventSets : Classify(evs)

SpecClassify == InitClassify /\ [][NextClassify]_vars

(***************************************************************************)
(* Properties of the reload-decision engine (under SpecClassify).          *)
(***************************************************************************)
Vectors == {"needs_restart", "needs_reload", "needs_add"}

\* get_reload_actions has been applied to `events`.
Classified == kindReply # "unsent"

\* The vectors the event alone is pushed to.
ClassesOf(e) == {v \in Vectors : get_reload_actions(opts, targets, {e})[v] # <<>>}

\* How often the path occurs in the vector.
Occurrences(q, path) == Cardinality({i \in 1..Len(q) : q[i] = path})

EventsAt(v, path) == {e \in events : relative_path(e.path) = path /\ v \in ClassesOf(e)}

\* C1 (as amended): every event is placed in exactly one of restart, reload,
\* add and ignore: no event is pushed to two vectors, and each vector holds
\* exactly the paths of the events of its class, once per event.  A path is
\* in two vectors only when two events of the set carry it.
C1_EachEventInOneClass ==
    Classified =>
        /\ \A e \in events : Cardinality(ClassesOf(e)) <= 1
        /\ \A v \in Vectors : \A path \in NormalPaths :
                Occurrences(actions[v], path) = Cardinality(EventsAt(v, path))

\* C1 (witness): a Modify and a Remove event were classified into different
\* classes, and a third class stayed empty.
C1_Witness ==
    /\ Classified
    /\ actions.needs_restart # <<>>
    /\ actions.needs_add # <<>>
    /\ actions.needs_reload = <<>>
    /\ Cardinality(events) = 2

\* C1 (as stated): no path is pushed into two of the three vectors.
C1_VectorsDisjoint ==
    Classified =>
        \A v, w \in Vectors :
            v # w => SeqRange(actions[v]) \cap SeqRange(actions[w]) = {}

\* The decision procedure of the specification (section 4.6) for one event,
\* from the seven inputs of the decision.
SpecDecision(restart_m, reload_m, src, cabal, dotghci, remove, in_targets) ==
    CASE (restart_m # "Ignore" /\ (cabal \/ dotghci \/ restart_m = "Whitelist"))
            \/ (remove /\ src /\ in_targets) -> "needs_restart"
      [] OTHER ->
            CASE reload_m = "Whitelist" -> "needs_reload"
              [] OTHER ->
                    CASE reload_m # "Ignore" /\ ~remove /\ src ->
                            IF in_targets THEN "needs_reload" ELSE "needs_add"
                      [] OTHER -> "ignore"

SpecClass(e) ==
    LET path == relative_path(e.path)
    IN  SpecDecision(opts.restart_globs[PatternOf(path)],
                     opts.reload_globs[PatternOf(path)],
                     path \in {"A.hs", "B.hs"}, path = "p.cabal", path = ".ghci",
                     e.kind = "Remove", path \in targets)

\* C2: every event gets the class the decision procedure of the specification
\* gives it.  In particular a path whitelisted by both matchers is restarted,
\* a reload-whitelisted path is never added (it is reloaded unless it is
\* restarted), and only a Modify event of a source file outside the target
\* set, which the reload globs neither whitelist nor ignore, is added.
C2_DecisionProcedure ==
    Classified =>
        /\ \A v \in Vectors :
                SeqRange(actions[v])
                    = {relative_path(e.path) : e \in {f \in events : SpecClass(f) = v}}
        /\ \A e \in events :
                LET path == relative_path(e.path)
                    restart_m == opts.restart_globs[PatternOf(path)]
                    reload_m == opts.reload_globs[PatternOf(path)]
                IN  /\ (restart_m = "Whitelist" /\ reload_m = "Whitelist")
                            => ClassesOf(e) = {"needs_restart"}
                    /\ reload_m = "Whitelist"
                            => /\ ClassesOf(e) \in {{"needs_restart"}, {"needs_reload"}}
                               /\ path \notin SeqRange(actions.needs_add)
                    /\ ClassesOf(e) = {"needs_add"}
                            => /\ e.kind = "Modify"
                               /\ path \in {"A.hs", "B.hs"}
                               /\ path \notin targets
                               /\ reload_m = "None"

\* C2 (witness): a path whitelisted by both matchers was classified restart.
C2_Witness ==
    /\ Classified
    /\ \E e \in events :
            /\ opts.restart_globs[PatternOf(relative_path(e.path))] = "Whitelist"
            /\ opts.reload_globs[PatternOf(relative_path(e.path))] = "Whitelist"
            /\ relative_path(e.path) \in SeqRange(actions.needs_restart)

RemovedTargets ==
    {e \in events : /\ e.kind = "Remove"
                    /\ relative_path(e.path) \in {"A.hs", "B.hs"}
                    /\ relative_path(e.path) \in targets}

\* C4: a Remove event of a source file of the target set is classified
\* restart whatever the globs say, and the kind of the call is Restart.
C4_RemovedTargetRestarts ==
    Classified =>
        \A e \in RemovedTargets :
            /\ relative_path(e.path) \in SeqRange(actions.needs_restart)
            /\ kindReply = "Restart"

\* C4 (witness): a removed target that both matchers ignore was classified.
C4_Witness ==
    /\ Classified
    /\ RemovedTargets # {}
    /\ opts.restart_globs["*.hs"] = "Ignore"
    /\ opts.reload_globs["*.hs"] = "Ignore"

(***************************************************************************)
(* Properties of the session (under Spec).                                 *)
(***************************************************************************)
\* A Reload call is running or has just ended, and was not interrupted.
InReload ==
    /\ reloads > 0
    /\ \/ status = "reloading"
       \/ status \in {"returned", "dead"} /\ result \in {"ok", "err"}

\* The positions of the trace at which the call did the operation.
Did(o, a) == {i \in 1..Len(trace) : trace[i].op = o /\ trace[i].a = a}

DidOp(o) == {i \in 1..Len(trace) : trace[i].op = o}

\* What is left of the call holds the operation.
Pending(o, a) == \E i \in 1..Len(todo) : todo[i].op = o /\ todo[i].a = a

\* C3: when an event of a Reload call is classified restart, the call
\* replies Restart, performs restart(), and neither runs a reload hook nor
\* issues `:add` or `:reload` for the other events, whatever they are; when
\* it returns, the REPL has been replaced.
C3_RestartAbsorbs ==
    (InReload /\ needs_restart(actions)) =>
        /\ kindReply = "Restart"
        /\ DidOp("restart") # {}
        /\ Did("run_hooks", "ReloadBefore") = {} /\ ~Pending("run_hooks", "ReloadBefore")
        /\ Did("run_hooks", "ReloadAfter") = {} /\ ~Pending("run_hooks", "ReloadAfter")
        /\ DidOp("add_module") = {} /\ \A i \in 1..Len(todo) : todo[i].op # "add_module"
        /\ Did("write", ":add") = {} /\ ~Pending("write", ":add")
        /\ Did("write", ":reload") = {} /\ ~Pending("write", ":reload")
        /\ (status = "returned" /\ result = "ok") =>
                /\ DidOp("spawn") # {}
                /\ Did("run_hooks", "RestartAfter") # {}

\* C3 (witness): a Reload call with an event classified restart and another
\* classified add or reload has returned.
C3_Witness ==
    /\ InReload
    /\ status = "returned" /\ result = "ok"
    /\ needs_restart(actions)
    /\ needs_add_or_reload(actions)

\* C5: as long as the REPL is not replaced, no step removes a path from the
\* target set, also not a step of a Reload that fails or is interrupted.
C5_TargetsGrow == [][epoch' = epoch => targets \subseteq targets']_vars

\* C5 (witness): a Reload has failed after it added a path to the targets.
C5_Witness ==
    /\ InReload
    /\ status = "returned" /\ result = "err"
    /\ DidOp("insert") # {}
    /\ Cardinality(targets) = 2

\* What the call did after position i of the trace, or is about to do.
After(i) ==
    IF i < Len(trace) THEN trace[i + 1]
    ELSE IF todo # <<>> THEN Head(todo)
    ELSE Op("return", "", "")

\* C6: add_module of a path of the target set writes no `:add`, leaves the
\* target set alone and returns without an error: the call goes on with what
\* follows add_module.
C6_AddIdempotent ==
    \A i \in DidOp("add_module") :
        /\ trace[i].a = "target" <=> trace[i].b \in targets \ {trace[j].b : j \in {k \in DidOp("insert") : k > i}}
        /\ trace[i].a = "target" =>
                /\ After(i).op \in {"add_module", "write", "write_error_log"}
                /\ After(i).op = "write" => After(i).a = ":reload"
                /\ \A j \in Did("write", ":add") :
                        j > i => \E k \in DidOp("add_module") : i < k /\ k < j

\* C6 (witness): add_module was called for a path the same call had added.
C6_Witness ==
    /\ status = "returned" /\ result = "ok"
    /\ \E i \in DidOp("add_module") : trace[i].a = "target"

\* The steps of a Reload that cannot be taken back.
Destructive ==
    {"clear", "run_hooks", "shell", "write", "restart", "stop", "spawn", "add_module",
     "insert"}

\* C9: a Reload call sends its kind on kind_sender first, once, and it is the
\* kind of its actions: the screen is cleared, hooks are run, commands are
\* written and restart() begins only after it.
C9_KindSentFirst ==
    InReload =>
        /\ trace # <<>>
        /\ trace[1] = Op("kind_send", kind(actions), "")
        /\ DidOp("kind_send") = {1}
        /\ kindReply = kind(actions)
        /\ \A i \in 1..Len(trace) : trace[i].op \in Destructive => i > 1
        /\ \A i \in 1..Len(todo) : todo[i].op # "kind_send"

\* C9 (witness): a Reload call has sent Reload and has cleared the screen,
\* run a hook and written a command.
C9_Witness ==
    /\ InReload
    /\ kindReply = "Reload"
    /\ DidOp("clear") # {} /\ DidOp("write") # {}
    /\ Did("hook", "ReloadBefore") # {} \/ Did("shell", "ReloadBefore") # {}

\* C10: the kind sent is Restart if needs_restart is not empty, else Reload
\* if needs_reload or needs_add is not empty, else None; it is Restart
\* exactly when the call invokes restart(), and of a call that has returned
\* it is Reload exactly when the call wrote `:add` or `:reload` and did not
\* restart, and None exactly when it did none of these.
C10_KindAgrees ==
    InReload =>
        /\ kindReply = (IF actions.needs_restart # <<>> THEN "Restart"
                        ELSE IF actions.needs_reload # <<>> \/ actions.needs_add # <<>>
                        THEN "Reload" ELSE "None")
        /\ kindReply = "Restart" <=> DidOp("restart") # {}
        /\ kindReply # "Reload" =>
                /\ Did("write", ":add") = {} /\ Did("write", ":reload") = {}
                /\ DidOp("add_module") = {}
        /\ kindReply = "None" => DidOp("write") = {} /\ DidOp("clear") = {}
        /\ (status = "returned" /\ result = "ok") =>
                /\ kindReply = "Reload" <=>
                        /\ DidOp("restart") = {}
                        /\ Did("write", ":add") # {} \/ Did("write", ":reload") # {}
                /\ kindReply = "None" <=>
                        /\ DidOp("restart") = {}
                        /\ Did("write", ":add") = {} /\ Did("write", ":reload") = {}

\* C10 (witness): a Reload call whose events are all ignored has returned,
\* of kind None.
C10_Witness ==
    /\ InReload
    /\ status = "returned" /\ result = "ok"
    /\ events # {}
    /\ kindReply = "None"

\* The commands written whose prompt nobody has read yet.
Outstanding == replQueue + stdoutq

\* C7 (as stated): every prompt read is the prompt of the one command
\* written before it, also across Interrupt: while a call awaits a prompt,
\* exactly one prompt is to come (as it is while a REPL that has been spawned
\* is given its watcher), and at every other time, and when the call has
\* ended, no prompt is left unread in the stream.
C7_PromptFraming ==
    /\ status \in {"idle", "returned"} => Outstanding = 0
    /\ Running =>
            Outstanding = (IF Head(todo).op \in {"prompt", "watch"} THEN 1 ELSE 0)

\* C7, for the sessions in which no Reload was interrupted.
C7_FramingUninterrupted == interrupts = 0 => C7_PromptFraming

\* The Reload call is the second of reload, interrupt, reload with the same
\* events.
Resumed == retry.state = "resumed" /\ status \in {"reloading", "returned", "dead"}

\* The Reload call is a second reload that has returned without an error.
ResumedDone == Resumed /\ status = "returned" /\ result = "ok"

\* The target set is one an uninterrupted reload of the events ends with.
AsUninterrupted == retry.low \subseteq targets /\ targets \subseteq retry.high

C11_Serialized == replQueue <= 1 /\ (replQueue = 1 => stdoutq = 0)

\* C11, for the sessions in which no Reload was interrupted.
C11_SerializedUninterrupted == interrupts = 0 => C11_Serialized

\* The events whose hooks finish_compilation runs when its last event is ev.
AfterEvents(ev) ==
    IF ev = "RestartAfter" THEN {"StartupAfter", "RestartAfter"} ELSE {ev}

\* The operation is part of an eval command or of the Test hooks.
IsEvalOrTest(x) ==
    \/ x.op \in {"interpret_module", "stdin_eval"}
    \/ x.op \in {"run_hooks", "shell"} /\ x.a = "Test"
    \/ x.op \in {"write", "prompt"} /\ x.a = "hook" /\ x.b = "Test"
    \/ x.op \in {"write", "prompt"}
            /\ x.a \in {":add *", ":module + *", "expression", ":module -"}

\* C16: finish_compilation goes on to the eval commands and the Test hooks
\* exactly when the result of the log is not Err: after Err nothing of them
\* is run or left to run; otherwise the eval commands come next when eval is
\* enabled and there are some, then the Test hooks.  The hooks of the after
\* events have run before, in both cases.
C16_EvalAndTestUnlessErr ==
    \A i \in DidOp("finish_check") :
        /\ \A ev \in AfterEvents(trace[i].a) :
                \E j \in Did("run_hooks", ev) : j < i
        /\ trace[i].b = "Err" =>
                /\ \A j \in 1..Len(trace) : j > i => ~IsEvalOrTest(trace[j])
                /\ \A j \in 1..Len(todo) : ~IsEvalOrTest(todo[j])
        /\ trace[i].b # "Err" =>
                /\ After(i).op \in {"interpret_module", "run_hooks"}
                /\ After(i).op = "interpret_module" => opts.enable_eval
                /\ After(i).op = "run_hooks" =>
                        /\ After(i).a = "Test"
                        /\ opts.enable_eval => \A path \in NormalPaths : eval_commands[path] < 1
                /\ (status = "returned" /\ result = "ok") =>
                        \E j \in Did("run_hooks", "Test") : j > i

\* C16 (witness): a compilation with hooks and eval commands has failed, and
\* its call has returned.
C16_Witness ==
    /\ status = "returned" /\ result = "ok"
    /\ opts.hooks = "Ghci" /\ opts.enable_eval
    /\ \E path \in NormalPaths : eval_commands[path] >= 1
    /\ \E i \in DidOp("finish_check") : trace[i].b = "Err"

IsPrefix(q, r) == Len(q) <= Len(r) /\ SubSeq(r, 1, Len(q)) = q

\* The steps of a restart, among the operations of a call.
IsRestartStep(x) ==
    \/ x.op \in {"stop", "new", "spawn", "replace", "initialize"}
    \/ x.op = "run_hooks" /\ x.a \in {"RestartBefore", "StartupAfter", "RestartAfter"}
    \/ x.op = "shell" /\ x.a = "StartupBefore"

\* The steps of a restart in the order C18 states, for the options o.
RestartSteps(o) ==
    <<Op("run_hooks", "RestartBefore", ""), Op("stop", "", ""), Op("new", "", "")>>
    \o (IF o.hooks = "Shell" THEN <<Op("shell", "StartupBefore", "")>> ELSE <<>>)
    \o <<Op("spawn", "", ""), Op("replace", "", ""), Op("initialize", "restart", ""),
         Op("run_hooks", "StartupAfter", ""), Op("run_hooks", "RestartAfter", "")>>

\* C18: a restart runs the RestartBefore hooks on the old session, then
\* stop(), then constructs the fresh session (its StartupBefore shell hooks
\* before the spawn), which replaces self and is initialized once, with the
\* hooks of StartupAfter and then of RestartAfter; nothing is written to the
\* old REPL after stop().
C18_RestartOrder ==
    \A i \in DidOp("restart") :
        LET done == SelectSeq(SubSeq(trace, i + 1, Len(trace)), IsRestartStep)
        IN  /\ IsPrefix(done, RestartSteps(opts))
            /\ (status = "returned" /\ result = "ok") => done = RestartSteps(opts)
            /\ \A j \in DidOp("stop"), k \in DidOp("write") \cup DidOp("prompt") :
                    j < k => \E n \in DidOp("initialize") : j < n /\ n < k
            /\ DidOp("stop") # {} /\ DidOp("spawn") = {} => Head(todo).op \in {"new", "shell", "spawn"}

\* C18 (witness): a restart with hooks has run to its end.
C18_Witness ==
    /\ status = "returned" /\ result = "ok"
    /\ opts.hooks = "Ghci"
    /\ DidOp("restart") # {}
    /\ \E k \in DidOp("write") : trace[k].a = "hook" /\ trace[k].b = "RestartBefore"

\* The steps of a reload, among the operations of a call.
IsReloadStep(x) ==
    \/ x.op = "run_hooks" /\ x.a \in {"ReloadBefore", "ReloadAfter"}
    \/ x.op = "write" /\ x.a \in {":add", ":reload"}
    \/ x.op \in {"insert", "write_error_log"}

\* The steps of a reload with the actions a, in the order C19 states, up to
\* the hooks of ReloadAfter.
ReloadSteps(a) ==
    <<Op("run_hooks", "ReloadBefore", "")>>
    \o Concat([i \in 1..Len(a.needs_add) |->
                <<Op("write", ":add", a.needs_add[i]), Op("insert", "", a.needs_add[i])>>])
    \o (IF a.needs_reload # <<>> THEN <<Op("write", ":reload", "")>> ELSE <<>>)
    \o <<Op("write_error_log", "", ""), Op("run_hooks", "ReloadAfter", "")>>

\* The operations of the call up to the check of finish_compilation.
UpToFinishCheck ==
    IF DidOp("finish_check") = {} THEN trace
    ELSE SubSeq(trace, 1, CHOOSE i \in DidOp("finish_check") :
                                \A j \in DidOp("finish_check") : i <= j)

\* The reload has done the steps `steps`, in their order.
ReloadDoes(steps) ==
    LET done == SelectSeq(UpToFinishCheck, IsReloadStep)
    IN  /\ IsPrefix(done, steps)
        /\ Cardinality(DidOp("finish_check")) <= 1
        /\ \A i \in DidOp("finish_check") :
                done = steps /\ trace[i].a = "ReloadAfter"
        /\ \A i \in DidOp("prune_command_handles") :
                i = Len(trace) /\ DidOp("finish_check") # {} /\ todo = <<>>
        /\ (status = "returned" /\ result = "ok") =>
                DidOp("prune_command_handles") # {}

\* C19 (as stated): a Reload of kind Reload runs the ReloadBefore hooks, then
\* writes one `:add` for each add path, in order, each followed by the
\* insertion of the path into the targets, then one `:reload` when there is
\* a reload path and none otherwise, then finish_compilation with
\* ReloadAfter, and last prunes the command handles.
C19_ReloadOrder ==
    (InReload /\ kindReply = "Reload") => ReloadDoes(ReloadSteps(actions))

\* The sequence without the elements that occur earlier in it.
Distinct(q) == SelectSeq([i \in 1..Len(q) |-> IF \E j \in 1..(i - 1) : q[j] = q[i]
                                                THEN "" ELSE q[i]],
                         LAMBDA x : x # "")

\* C19: as stated, with one `:add` for each distinct add path: an add path
\* that occurs again in needs_add is a target by then and is skipped.
C19_ReloadOrderDistinct ==
    (InReload /\ kindReply = "Reload") =>
        ReloadDoes(ReloadSteps([actions EXCEPT !.needs_add = Distinct(@)]))

\* C19 (witness): a Reload whose add paths hold one path twice has returned.
C19_Witness ==
    /\ InReload /\ kindReply = "Reload"
    /\ status = "returned" /\ result = "ok"
    /\ Len(actions.needs_add) >= 2
    /\ Distinct(actions.needs_add) # actions.needs_add

\* The call has had the REPL compile: at its startup, for `:add` or `:reload`.
Compiled ==
    \E i \in DidOp("prompt") : trace[i].a \in {"startup", ":add", ":reload"}

\* The operation is a hook of an after event, an eval command or a Test hook.
IsAfterStep(x) ==
    \/ x.op = "run_hooks" /\ x.a \in {"StartupAfter", "RestartAfter", "ReloadAfter", "Test"}
    \/ x.op \in {"interpret_module", "stdin_eval"}

\* The error log is flushed at most once, after the compilation and before
\* every after-event hook, eval command and Test hook.
FlushedInOrder ==
    /\ Cardinality(DidOp("write_error_log")) <= 1
    /\ \A i \in DidOp("write_error_log") :
            /\ Compiled
            /\ \A k \in DidOp("prompt") :
                    trace[k].a \in {"startup", ":add", ":reload"} => k < i
    /\ \A j \in 1..Len(trace) :
            IsAfterStep(trace[j]) => \E i \in DidOp("write_error_log") : i < j

C12_RestartNeverShutsDown ==
    \A e \in 1..Len(procs) :
        (procs[e].restart > 0 /\ procs[e].child # "crashed") =>
            procs[e].watcher # "reported"

\* C13 (as stated): the exit of a child that died while no unit was in its
\* restart channel and shutdown was not requested is never passed over: its
\* watcher does not return quietly.
C13_ExitNeverIgnored ==
    \A e \in 1..Len(procs) :
        procs[e].child = "crashed" => procs[e].watcher # "quiet"

\* C13: when the watcher of a process takes a step while the child has
\* exited, the restart channel is empty and shutdown is not requested, it
\* requests shutdown; and after a child has died shutdown is requested in
\* the end, unless the session is stopped first and the watcher returns
\* quietly.
C13_ExitReported ==
    /\ [][\A e \in 1..Len(procs) :
            (/\ procs[e].watcher = "watching" /\ procs'[e].watcher # "watching"
             /\ procs[e].child # "running" /\ procs[e].restart = 0 /\ ~shutdown)
                => procs'[e].watcher = "reported" /\ shutdown']_vars
    /\ \A e \in 1..MaxProcs :
            (e <= Len(procs) /\ procs[e].child = "crashed")
                ~> (shutdown \/ (e <= Len(procs) /\ procs[e].watcher = "quiet"))

\* C13 (witness): the watcher has reported the exit of a child that died on
\* its own.
C13_Witness ==
    \E e \in 1..Len(procs) :
        procs[e].child = "crashed" /\ procs[e].watcher = "reported" /\ shutdown

\* The call has ended in an error.
Failed == trace # <<>> /\ trace[Len(trace)].op = "error"

C14_WitnessFatal ==
    Failed /\ status = "dead" /\ kindReply = "Restart"

\* The operations that follow the hooks of an event in its step.
NextOfStep(ev) ==
    CASE ev = "StartupBefore" -> {"spawn"}
      [] ev = "RestartBefore" -> {"stop"}
      [] ev = "ReloadBefore" -> {"add_module", "write"}
      [] ev = "StartupAfter" -> {"run_hooks", "finish_check"}
      [] ev \in {"RestartAfter", "ReloadAfter"} -> {"finish_check"}
      [] OTHER -> {"prune_command_handles", "return"}

C17_Terminated ==
    \A e \in 1..MaxProcs :
        (/\ e <= Len(procs)
         /\ procs[e].restart > 0 \/ shutdown \/ status = "dead" \/ e < epoch)
            ~> (e <= Len(procs) /\ procs[e].child # "running")

\* C17 (witness): after a restart the old REPL has been killed, and the new
\* one runs.
C17_Witness ==
    /\ epoch = 2 /\ Len(procs) = 2
    /\ procs[1].child = "killed" /\ procs[1].watcher = "quiet"
    /\ procs[2].child = "running" /\ procs[2].watcher = "watching"
    /\ status = "returned" /\ result = "ok"

(***************************************************************************)
(* The target set and the eval commands (under Spec).                      *)
(***************************************************************************)
\* C21 (as stated): a path is in the target set once the prompt of its `:add`
\* has been read, whatever the compilation log says, and no `:add` is written
\* for a path for which an `:add` was written before in the same epoch, also
\* not by the reload that follows an interrupted one.
C21_AddNeverRepeated ==
    /\ \A i \in Did("prompt", ":add") : trace[i].b \in targets
    /\ \A i, j \in Did("write", ":add") : i # j => trace[i].b # trace[j].b
    /\ \A i \in Did("write", ":add") : ~(Resumed /\ retry.in_flight = trace[i].b)

\* C21 (as amended): a path is in the target set once the prompt of its `:add`
\* has been read, whatever the compilation log says; `:add` is written only
\* for a path outside the target set, and once in a call; and a Reload that
\* follows classifies a Modify of a path that was classified add and is now
\* in the target set as reload, never as add.
C21_AddedIsTarget ==
    /\ [](/\ \A i \in Did("prompt", ":add") : trace[i].b \in targets
          /\ \A i, j \in Did("write", ":add") : i # j => trace[i].b # trace[j].b)
    /\ [][(/\ todo # <<>>
           /\ Head(todo).op = "write" /\ Head(todo).a = ":add"
           /\ trace' = Append(trace, Head(todo)))
                => Head(todo).b \notin targets]_vars
    /\ [][(status = "idle" /\ status' # "idle") =>
                \A e \in events' :
                    (/\ e.kind = "Modify"
                     /\ relative_path(e.path) \in retry.adds \cap targets)
                        => /\ relative_path(e.path) \in SeqRange(actions'.needs_reload)
                           /\ relative_path(e.path) \notin SeqRange(actions'.needs_add)]_vars

\* C21 (witness): the interrupted reload had added a path; the reload that
\* followed has reloaded it and returned, and has written no `:add`.
C21_Witness ==
    /\ ResumedDone
    /\ kindReply = "Reload"
    /\ Did("write", ":add") = {}
    /\ Did("write", ":reload") # {}
    /\ \E e \in events :
            /\ e.kind = "Modify"
            /\ relative_path(e.path) \in retry.adds \cap targets
            /\ relative_path(e.path) \in SeqRange(actions.needs_reload)

\* A Reload call that restarts the session is running or has returned.
RestartCall == status \in {"reloading", "returned"} /\ DidOp("restart") # {}

\* C22: in a restart the target set is empty until the fresh REPL has
\* answered `:show targets`, it is what that answer made it from then on to
\* the return of the call (a deleted path is a target only when the fresh
\* REPL lists it), the eval-command map is empty until refresh_eval_commands
\* has stored what it read from the files of those targets and has no key
\* outside them, and once the new session has replaced the old one every
\* background-task handle held is one of the new session.
C22_FreshAfterRestart ==
    /\ [](RestartCall /\ DidOp("spawn") # {} =>
            /\ Did("prompt", ":show targets") = {} => targets = {}
            /\ DidOp("commit_eval_commands") = {} => EvalKeys(eval_commands) = {}
            /\ EvalKeys(eval_commands) \subseteq targets
            /\ DidOp("replace") # {} => \A h \in command_handles : h.epoch = epoch)
    /\ [][(/\ RestartCall /\ status = "reloading"
           /\ Did("prompt", ":show targets") # {})
                => targets' = targets]_vars

\* C22 (witness): a target was deleted while the session held a handle; the
\* restart has returned, with targets, eval commands and handles, and
\* without the deleted path.
C22_Witness ==
    /\ RestartCall /\ status = "returned" /\ result = "ok"
    /\ \E e \in events :
            /\ e.kind = "Remove"
            /\ relative_path(e.path) \in SeqRange(actions.needs_restart)
            /\ relative_path(e.path) \notin targets
    /\ targets # {}
    /\ EvalKeys(eval_commands) # {}
    /\ command_handles # {}

\* The commands of eval, as they are written for the module of a path.
EvalBlock(path) ==
    <<Op("write", ":add *", path), Op("write", ":module + *", path),
      Op("write", "expression", path), Op("write", ":module -", path)>>

IsEvalWrite(x) ==
    x.op = "write" /\ x.a \in {":add *", ":module + *", "expression", ":module -"}

\* The commands of eval the call has written, in order.
EvalWrites == SelectSeq(trace, IsEvalWrite)

\* The path of the k-th module the call has started to evaluate.
Evaluated(k) == EvalWrites[4 * (k - 1) + 1].b

\* C23: the commands of eval a call writes are, module after module in the
\* order of the paths, `:add *M`, `:module + *M`, the expression and the
\* restore of the scope, each written after the prompt of the one before; a
\* call that ends its compilation without an error and returns has written
\* them for every path that has a stored eval command; and with eval
\* disabled no command of eval, `:add *M` included, is written or pending.
C23_EvalOrder ==
    /\ \A i \in 1..Len(EvalWrites) :
            /\ EvalWrites[i] =
                    EvalBlock(Evaluated(((i - 1) \div 4) + 1))[((i - 1) % 4) + 1]
            /\ \A j \in 1..(i - 1) :
                    (i - 1) \div 4 # (j - 1) \div 4 =>
                        PathRank(EvalWrites[j].b) < PathRank(EvalWrites[i].b)
    /\ \A i \in 1..Len(trace) :
            (IsEvalWrite(trace[i]) /\ i < Len(trace)) =>
                trace[i + 1] = Op("prompt", trace[i].a, trace[i].b)
    /\ (/\ opts.enable_eval
        /\ status = "returned" /\ result = "ok"
        /\ \E i \in DidOp("finish_check") : trace[i].b # "Err") =>
            /\ Len(EvalWrites) % 4 = 0
            /\ \A path \in NormalPaths :
                    eval_commands[path] >= 1 =>
                        \E k \in 1..(Len(EvalWrites) \div 4) : Evaluated(k) = path
    /\ ~opts.enable_eval =>
            /\ EvalWrites = <<>>
            /\ DidOp("interpret_module") = {} /\ DidOp("stdin_eval") = {}
            /\ \A i \in 1..Len(todo) :
                    ~IsEvalWrite(todo[i])
                    /\ todo[i].op \notin {"interpret_module", "stdin_eval"}

\* C23 (witness): a call has evaluated the commands of two modules and has
\* returned.
C23_Witness ==
    /\ opts.enable_eval
    /\ status = "returned" /\ result = "ok"
    /\ Len(EvalWrites) = 8
    /\ Evaluated(1) = "A.hs" /\ Evaluated(2) = "B.hs"

(***************************************************************************)
(* Interrupt (under SpecInterrupt).                                        *)
(***************************************************************************)
\* C24 (as stated): wherever the Reload was suspended, send_sigint has
\* signalled the process group, awaits one prompt and nothing else, the REPL
\* runs no command and has printed a prompt for it to read; and it returns,
\* with the REPL at its prompt.
C24_InterruptReturns ==
    /\ [](status = "interrupting" =>
            /\ todo = <<Op("sigint_prompt", "", "")>>
            /\ trace[1].op = "send_sigint"
            /\ replQueue = 0
            /\ stdoutq > 0)
    /\ [](status = "returned" /\ result = "interrupted" =>
            replQueue = 0 /\ todo = <<>>)
    /\ (status = "interrupting") ~>
            (status = "returned" /\ result = "interrupted" /\ replQueue = 0)

(***************************************************************************)
(* Reloads that do nothing (under SpecPaths and SpecHandles).              *)
(***************************************************************************)
\* C25: a Reload whose events hold a path that cannot be normalized returns
\* an error at once: nothing was sent on kind_sender, no hook was run and no
\* command written, and the step leaves the targets, the eval commands, the
\* handles and the REPL as they were, whatever the other events are.
C25_PathErrorFirst ==
    /\ []((status \in {"reloading", "returned"} /\ Normalizable(events) # events) =>
            /\ status = "returned" /\ result = "err"
            /\ kindReply = "unsent"
            /\ trace = <<Op("error", "relative_path", "")>>
            /\ todo = <<>>)
    /\ [][(status = "idle" /\ status' # "idle" /\ Normalizable(events') # events') =>
                UNCHANGED <<targets, eval_commands, command_handles, epoch, replQueue,
                            stdoutq, procs>>]_vars

\* C25 (witness): a Reload with the Remove of a target, which asks for a
\* restart, and a path that cannot be normalized has returned its error.
C25_Witness ==
    /\ status = "returned" /\ result = "err"
    /\ \E e \in events : make_relative_fails(e.path)
    /\ \E e \in events :
            /\ e.kind = "Remove"
            /\ ~make_relative_fails(e.path)
            /\ relative_path(e.path) \in targets

\* C26: a Reload whose kind is None returns in the step in which it is
\* called, having sent the kind and pruned the handles and nothing else (no
\* clear, no hook, no command, no write of the error log); the step leaves
\* the targets, the eval commands and the REPL as they were, and of the
\* handles it removes those whose task has finished.
C26_NoneOnlyPrunes ==
    /\ [](kindReply = "None" =>
            /\ status = "returned" /\ result = "ok"
            /\ todo = <<>>
            /\ trace = <<Op("kind_send", "None", ""),
                         Op("prune_command_handles", "", "")>>)
    /\ [][(status = "idle" /\ kindReply' = "None") =>
                /\ UNCHANGED <<targets, eval_commands, new_eval_commands, epoch,
                               replQueue, stdoutq, procs, opts>>
                /\ command_handles' = {h \in command_handles : h.state = "running"}]_vars

\* C26 (witness): a Reload all of whose events are ignored has returned, and
\* has pruned the handles the session held, whose tasks had finished.
C26_Witness ==
    /\ status = "returned" /\ kindReply = "None"
    /\ events # {}
    /\ command_handles = {}

\* C27 (as stated): every key of the eval-command map is a path of the
\* target set.
C27_EvalKeysAreTargets == EvalKeys(eval_commands) \subseteq targets

\* C27 (as amended): a key of the eval-command map is a path of the target
\* set or a path that a reload glob whitelists (which a `:reload` has
\* refreshed the eval commands of), and the path of every expression eval
\* has written is a path of the target set: interpret_module has made it one.
C27_EvalKeysTracked ==
    /\ \A path \in EvalKeys(eval_commands) \ targets :
            is_whitelist(matched(opts.reload_globs, path))
    /\ \A i \in Did("write", "expression") : trace[i].b \in targets

\* C27 (witness): a Reload has reloaded a path outside the target set that a
\* reload glob whitelists, and has evaluated its eval command after
\* interpret_module had made it a target.
C27_Witness ==
    /\ status = "returned" /\ result = "ok"
    /\ kindReply = "Reload"
    /\ actions.needs_add = <<>>
    /\ \E i \in Did("write", "expression") :
            /\ trace[i].b \in SeqRange(actions.needs_reload)
            /\ \E j \in DidOp("insert") : j < i /\ trace[j].b = trace[i].b
====
